---- MODULE Spec2Model ----
(***************************************************************************)
(* OntotextGraphDBQAChain: question answering over GraphDB by generating   *)
(* a SPARQL query, executing it, repairing it when the endpoint rejects it *)
(* as malformed (at most max_fix_retries times) and phrasing an answer.    *)
(*                                                                         *)
(* One frame of locals per request; every collaborator call (language      *)
(* model, endpoint) is one step, its response chosen by the environment.   *)
(* The *Log variables record each collaborator call with the arguments it  *)
(* received and what it gave back; the program never reads them.           *)
(***************************************************************************)
EXTENDS Integers, Sequences, FiniteSets, TLC

\* ---------------------------------------------------------------- bounds
MaxRetriesBound == 2      \* max_fix_retries ranges over -1..MaxRetriesBound
MaxRows == 2              \* rows of a result set given to the formatter alone

\* The frames of _call that exist at a time: a call and one that overlaps it.
Requests == {1, 2}
RetryBudgets == (-1)..MaxRetriesBound

\* ------------------------------------------------- collaborator alphabets
Questions == {"who is luke"}
Schemas == {"onto_v1", "onto_v2"}
Queries == {"SELECT_A", "SELECT_B"}
Answers == {"answer_1"}

\* The text of the endpoint's QueryBadFormed for a query: the parse error
\* of that query.
ParseError(q) == IF q = "SELECT_A" THEN "bad token" ELSE "bad prefix"

\* Exception classes of graph.exec_query, in the order of the except clauses.
EndpointFailures ==
    {"QueryBadFormed", "Unauthorized", "EndPointNotFound", "URITooLong",
     "EndPointInternalError", "HTTPError", "Exception"}
\* A failure raised by LLMChain.invoke.
ModelFailure == "ModelError"

NoExc == [class |-> "None", msg |-> ""]
Exc(c, m) == [class |-> c, msg |-> m]
NoResult == [answer |-> "", generated_sparql |-> ""]

\* str(e)
str(e) == e.msg

\* A bound value (SPARQLWrapper Value): the formatter reads only .value
Lit(v) == [type |-> "literal", value |-> v]
Uri(v) == [type |-> "uri", value |-> v]
\* A row is an ordered dict: a sequence of <<variable, Value>> with distinct
\* variables.  A result set is its .bindings, a sequence of rows.
ResultSets ==
    { << << <<"a", Lit("1")>>, <<"b", Lit("2")>> >> >> }

\* Rows the formatter is tried on: no binding, one, two in either order.
Rows ==
    { <<>>,
      << <<"a", Lit("1")>> >>,
      << <<"a", Lit("1")>>, <<"b", Lit("2")>> >>,
      << <<"b", Lit("2")>>, <<"a", Lit("1")>> >>,
      << <<"s", Uri("luke")>> >> }

\* Result sets of at most MaxRows rows.
RowSeqs == UNION {[1..n -> Rows] : n \in 0..MaxRows}

\* ------------------------------------------------------- result formatter
\* changed: one entry per row, its first binding
FlattenRow_first(d) ==
    IF d = <<>> THEN <<>> ELSE << <<Head(d)[1], Head(d)[2].value>> >>

\* [{k: v.value} for d in query_bindings for k, v in d.items()]
RECURSIVE FlattenRow(_)
FlattenRow(d) ==
    IF d = <<>> THEN <<>>
    ELSE << <<Head(d)[1], Head(d)[2].value>> >> \o FlattenRow(Tail(d))

RECURSIVE FlattenBindings(_)
FlattenBindings(query_bindings) ==
    IF query_bindings = <<>> THEN <<>>
    ELSE FlattenRow(Head(query_bindings)) \o FlattenBindings(Tail(query_bindings))

\* json.dumps of a str without characters that need escaping
JsonStr(s) == "\"" \o s \o "\""

\* json.dumps of a one-entry dict {k: v}
JsonEntry(kv) == "{" \o JsonStr(kv[1]) \o ": " \o JsonStr(kv[2]) \o "}"

RECURSIVE JsonItems(_)
JsonItems(res) ==
    IF res = <<>> THEN ""
    ELSE IF Len(res) = 1 THEN JsonEntry(res[1])
    ELSE JsonEntry(res[1]) \o ", " \o JsonItems(Tail(res))

\* json.dumps of a list of one-entry dicts
JsonDumps(res) == "[" \o JsonItems(res) \o "]"

query_results_to_json(query_results) == JsonDumps(FlattenBindings(query_results))

\* ------------------------------------------------------------------ state
VARIABLES
    max_fix_retries,        \* configuration, set at construction
    sparql_generation_chain,\* configuration: LLMChain(llm, generation prompt)
    sparql_fix_chain,       \* configuration: LLMChain(llm, fix prompt)
    qa_chain,               \* configuration: LLMChain(llm, qa prompt)
    graph_schema,           \* what graph.get_schema returns now
    pc,                     \* per request: where the call stands
    prompt,                 \* _call: inputs[self.input_key]
    ontology_schema,        \* _call: snapshot of graph.get_schema
    generated_sparql,       \* current candidate query
    retries,                \* _execute_query: retry counter (0 = unset)
    error_message,          \* _execute_query: str(e) of the last QueryBadFormed
    generated_valid_sparql, \* _call: query returned by _execute_query
    query_results,          \* _call: result set returned by _execute_query
    query_results_str,      \* _call: formatted results
    result,                 \* value returned to the caller
    raised,                 \* exception propagated to the caller
    genLog,                 \* calls of sparql_generation_chain.invoke
    execLog,                \* calls of graph.exec_query
    fixLog,                 \* calls of sparql_fix_chain.invoke
    fmtLog,                 \* calls of query_results_to_json
    qaLog                   \* calls of qa_chain.invoke

config == <<max_fix_retries, sparql_generation_chain, sparql_fix_chain, qa_chain>>
locals == <<prompt, ontology_schema, generated_sparql, retries, error_message,
            generated_valid_sparql, query_results, query_results_str>>
outcome == <<result, raised>>
logs == <<genLog, execLog, fixLog, fmtLog, qaLog>>
vars == <<max_fix_retries, sparql_generation_chain, sparql_fix_chain, qa_chain,
          graph_schema, pc, prompt, ontology_schema,
          generated_sparql, retries, error_message, generated_valid_sparql,
          query_results, query_results_str, result, raised,
          genLog, execLog, fixLog, fmtLog, qaLog>>

Running == {"generate", "exec_first", "fix", "exec_retry", "format", "answer"}
Terminal == {"returned", "raised"}

\* LLMChain(llm=llm, prompt=...) as from_llm builds it (lines 71-74)
LLMChain(llm, template) == [llm |-> llm, prompt |-> template]

Init ==
    /\ max_fix_retries \in RetryBudgets
    /\ sparql_generation_chain = LLMChain("llm", "GRAPHDB_SPARQL_GENERATION_PROMPT")
    /\ sparql_fix_chain = LLMChain("llm", "GRAPHDB_SPARQL_FIX_PROMPT")
    /\ qa_chain = LLMChain("llm", "GRAPHDB_QA_PROMPT")
    /\ graph_schema \in Schemas
    /\ pc = [r \in Requests |-> "idle"]
    /\ prompt = [r \in Requests |-> ""]
    /\ ontology_schema = [r \in Requests |-> ""]
    /\ generated_sparql = [r \in Requests |-> ""]
    /\ retries = [r \in Requests |-> 0]
    /\ error_message = [r \in Requests |-> ""]
    /\ generated_valid_sparql = [r \in Requests |-> ""]
    /\ query_results = [r \in Requests |-> <<>>]
    /\ query_results_str = [r \in Requests |-> ""]
    /\ result = [r \in Requests |-> NoResult]
    /\ raised = [r \in Requests |-> NoExc]
    /\ genLog = [r \in Requests |-> <<>>]
    /\ execLog = [r \in Requests |-> <<>>]
    /\ fixLog = [r \in Requests |-> <<>>]
    /\ fmtLog = [r \in Requests |-> <<>>]
    /\ qaLog = [r \in Requests |-> <<>>]

\* ------------------------------------------------ collaborator responses
\* What graph.exec_query(q) raises: a QueryBadFormed carries the endpoint's
\* parse error of q, the other classes a message the chain only logs.
EndpointExceptions(q) ==
    {Exc("QueryBadFormed", ParseError(q))}
    \cup {Exc(c, "request failed") : c \in EndpointFailures \ {"QueryBadFormed"}}

\* graph.exec_query(q) either returns a result set or raises.
EndpointResponses(q) ==
    {[exc |-> NoExc, results |-> rs] : rs \in ResultSets}
    \cup {[exc |-> e, results |-> <<>>] : e \in EndpointExceptions(q)}

ModelExc == Exc(ModelFailure, "model unavailable")

\* --------------------------------------------- _execute_query, decisions
\* changed: endpoint-internal errors are repaired as well
IsBadFormed_or500(e) == e.class \in {"QueryBadFormed", "EndPointInternalError"}

\* `except QueryBadFormed as e` (lines 199 and 241): the only class that is
\* repaired; every other class is re-raised or propagates.
IsBadFormed(e) == e.class = "QueryBadFormed"

\* changed: the counter starts at 0
FirstRetries_zero == 1 - 1

\* retries = 1 (line 200)
FirstRetries == 1

\* changed: the counter is not incremented
NextRetries_stuck(n) == n

\* changed: the counter is advanced by two
NextRetries_double(n) == n + 2

\* retries += 1 (line 242)
NextRetries(n) == n + 1

\* changed: one more failure is let through before raising
BudgetExceeded_lenient(n, max) == n > max + 1

\* changed: >= for >
BudgetExceeded_offbyone(n, max) == n >= max

\* if retries > self.max_fix_retries: raise e (lines 209 and 250)
BudgetExceeded(n, max) == n > max

\* while retries <= self.max_fix_retries (line 211)
LoopGuard(n, max) == n <= max

\* raise Exception (line 309), after "Unable to execute query"
UnableToExecute == Exc("Exception", "")

\* changed: the failure of the first execution is raised
Reraise_first(r, e) == IF execLog[r] = <<>> THEN e ELSE execLog[r][1].exc

\* changed: a bare Exception is raised in place of e
Reraise_generic(r, e) == UnableToExecute

\* `raise e`: the exception bound by the handler that is running
Reraise(r, e) == e

\* the variables given to sparql_generation_chain.invoke (lines 111-114)
GenInputs(r) == [prompt |-> prompt[r], schema |-> ontology_schema[r]]

\* changed: the repair is given the first query and the first error
FixInputs_stale(r) ==
    [error_message |-> str(execLog[r][1].exc),
     generated_sparql |-> genLog[r][1].out,
     schema |-> ontology_schema[r]]

\* changed: the repair reads the schema from the provider again
FixInputs_schemaReread(r) ==
    [error_message |-> error_message[r],
     generated_sparql |-> generated_sparql[r],
     schema |-> graph_schema]

\* the variables given to sparql_fix_chain.invoke (lines 220-224)
FixInputs(r) ==
    [error_message |-> error_message[r],
     generated_sparql |-> generated_sparql[r],
     schema |-> ontology_schema[r]]

\* changed: the answer chain is given the query, not the formatted results
QaInputs_query(r) == [prompt |-> prompt[r], context |-> generated_valid_sparql[r]]

\* the variables given to qa_chain.invoke (line 139)
QaInputs(r) == [prompt |-> prompt[r], context |-> query_results_str[r]]

\* changed: the repaired query is not the one returned
ReturnedSparql_original(r) == genLog[r][1].out

\* the query of `return generated_sparql, self.graph.exec_query(...)`
\* (lines 198 and 240)
ReturnedSparql(r) == generated_sparql[r]

\* changed: the generated_sparql key carries the question
CallResult_unrepaired(r, answer) ==
    [answer |-> answer, generated_sparql |-> prompt[r]]

\* the dict returned by _call (lines 150-153)
CallResult(r, answer) ==
    [answer |-> answer, generated_sparql |-> generated_valid_sparql[r]]

\* The model's own cap on the length of a log; the loop of the code stays
\* below it (TypeOK states so), it only keeps a changed loop finite.
LogCap == MaxRetriesBound + 3

\* --------------------------------------------------------------- actions
\* _call, lines 92-95: read the question and the schema.
Call(r) ==
    /\ pc[r] = "idle"
    /\ \E q \in Questions : prompt' = [prompt EXCEPT ![r] = q]
    /\ ontology_schema' = [ontology_schema EXCEPT ![r] = graph_schema]
    /\ pc' = [pc EXCEPT ![r] = "generate"]
    /\ UNCHANGED <<config, graph_schema, generated_sparql, retries,
                   error_message, generated_valid_sparql, query_results,
                   query_results_str, outcome, logs>>

\* _call, lines 110-119: the generation chain returns a query.
GenerateOk(r) ==
    /\ pc[r] = "generate"
    /\ \E q \in Queries :
          /\ genLog' = [genLog EXCEPT ![r] =
                 Append(@, [in |-> GenInputs(r), exc |-> NoExc, out |-> q])]
          /\ generated_sparql' = [generated_sparql EXCEPT ![r] = q]
    /\ pc' = [pc EXCEPT ![r] = "exec_first"]
    /\ UNCHANGED <<config, graph_schema, prompt, ontology_schema, retries,
                   error_message, generated_valid_sparql, query_results,
                   query_results_str, outcome, execLog, fixLog, fmtLog, qaLog>>

\* _call, line 110: the generation chain raises; nothing catches it.
GenerateFail(r) ==
    /\ pc[r] = "generate"
    /\ genLog' = [genLog EXCEPT ![r] =
           Append(@, [in |-> GenInputs(r), exc |-> ModelExc, out |-> ""])]
    /\ raised' = [raised EXCEPT ![r] = ModelExc]
    /\ pc' = [pc EXCEPT ![r] = "raised"]
    /\ UNCHANGED <<config, graph_schema, locals, result,
                   execLog, fixLog, fmtLog, qaLog>>

\* _execute_query returns to _call (line 121): the tuple is unpacked.
ReturnFromExecute(r, resp) ==
    /\ generated_valid_sparql' =
           [generated_valid_sparql EXCEPT ![r] = ReturnedSparql(r)]
    /\ query_results' = [query_results EXCEPT ![r] = resp.results]
    /\ pc' = [pc EXCEPT ![r] = "format"]
    /\ UNCHANGED <<retries, error_message, outcome>>

\* changed: the exception is recorded and _call goes on with empty results
Propagate_swallow(r, e) ==
    /\ raised' = [raised EXCEPT ![r] = e]
    /\ pc' = [pc EXCEPT ![r] = "format"]
    /\ UNCHANGED <<generated_valid_sparql, query_results, result>>

\* An exception leaves _execute_query and then _call.
Propagate(r, e) ==
    /\ raised' = [raised EXCEPT ![r] = e]
    /\ pc' = [pc EXCEPT ![r] = "raised"]
    /\ UNCHANGED <<generated_valid_sparql, query_results, result>>

\* changed: the counter and the error text are attributes of the chain
\* (self.retries, self.error_message), one cell for all the calls
AfterBadFormed_onSelf(r, e, n) ==
    /\ retries' = [x \in Requests |-> n]
    /\ error_message' = [x \in Requests |-> str(e)]
    /\ IF BudgetExceeded(n, max_fix_retries)
       THEN Propagate(r, Reraise(r, e))
       ELSE IF LoopGuard(n, max_fix_retries)
       THEN /\ pc' = [pc EXCEPT ![r] = "fix"]
            /\ UNCHANGED <<generated_valid_sparql, query_results, outcome>>
       ELSE Propagate(r, UnableToExecute)

\* A QueryBadFormed handler has set the counter to n (lines 200-210 and
\* 242-251): raise when the budget is exceeded, else back to the loop head
\* (line 211), which either repairs or falls through to line 303.
AfterBadFormed(r, e, n) ==
    /\ retries' = [retries EXCEPT ![r] = n]
    /\ error_message' = [error_message EXCEPT ![r] = str(e)]
    /\ IF BudgetExceeded(n, max_fix_retries)
       THEN Propagate(r, Reraise(r, e))
       ELSE IF LoopGuard(n, max_fix_retries)
       THEN /\ pc' = [pc EXCEPT ![r] = "fix"]
            /\ UNCHANGED <<generated_valid_sparql, query_results, outcome>>
       ELSE Propagate(r, UnableToExecute)

LogExec(r, resp) ==
    execLog' = [execLog EXCEPT ![r] =
        Append(@, [query |-> generated_sparql[r], exc |-> resp.exc,
                   results |-> resp.results])]

\* line 198: the first execution succeeds.
ExecFirstOk(r) ==
    /\ pc[r] = "exec_first"
    /\ \E resp \in EndpointResponses(generated_sparql[r]) :
          /\ resp.exc = NoExc
          /\ LogExec(r, resp)
          /\ ReturnFromExecute(r, resp)
    /\ UNCHANGED <<config, graph_schema, prompt, ontology_schema,
                   generated_sparql, query_results_str,
                   genLog, fixLog, fmtLog, qaLog>>

\* lines 198-210: the first execution raises QueryBadFormed.
ExecFirstBadFormed(r) ==
    /\ pc[r] = "exec_first"
    /\ \E resp \in EndpointResponses(generated_sparql[r]) :
          /\ resp.exc # NoExc
          /\ IsBadFormed(resp.exc)
          /\ LogExec(r, resp)
          /\ AfterBadFormed(r, resp.exc, FirstRetries)
    /\ UNCHANGED <<config, graph_schema, prompt, ontology_schema,
                   generated_sparql, query_results_str,
                   genLog, fixLog, fmtLog, qaLog>>

\* lines 253-301: the first execution raises another class; the matching
\* except clause logs it and re-raises it.
ExecFirstFatal(r) ==
    /\ pc[r] = "exec_first"
    /\ \E resp \in EndpointResponses(generated_sparql[r]) :
          /\ resp.exc # NoExc
          /\ ~IsBadFormed(resp.exc)
          /\ LogExec(r, resp)
          /\ Propagate(r, Reraise(r, resp.exc))
    /\ UNCHANGED <<config, graph_schema, prompt, ontology_schema,
                   generated_sparql, retries, error_message,
                   query_results_str, genLog, fixLog, fmtLog, qaLog>>

\* changed: each repair is taken off self.max_fix_retries
FixOk_spendsBudget(r) ==
    /\ pc[r] = "fix"
    /\ Len(fixLog[r]) < LogCap
    /\ \E q \in Queries :
          /\ fixLog' = [fixLog EXCEPT ![r] =
                 Append(@, [in |-> FixInputs(r), exc |-> NoExc, out |-> q])]
          /\ generated_sparql' = [generated_sparql EXCEPT ![r] = q]
    /\ pc' = [pc EXCEPT ![r] = "exec_retry"]
    /\ max_fix_retries' = max_fix_retries - 1
    /\ UNCHANGED <<sparql_generation_chain, sparql_fix_chain, qa_chain,
                   graph_schema, prompt, ontology_schema, retries,
                   error_message, generated_valid_sparql, query_results,
                   query_results_str, outcome, genLog, execLog, fmtLog, qaLog>>

\* lines 219-229: the fix chain returns a new candidate.
FixOk(r) ==
    /\ pc[r] = "fix"
    /\ Len(fixLog[r]) < LogCap
    /\ \E q \in Queries :
          /\ fixLog' = [fixLog EXCEPT ![r] =
                 Append(@, [in |-> FixInputs(r), exc |-> NoExc, out |-> q])]
          /\ generated_sparql' = [generated_sparql EXCEPT ![r] = q]
    /\ pc' = [pc EXCEPT ![r] = "exec_retry"]
    /\ UNCHANGED <<config, graph_schema, prompt, ontology_schema, retries,
                   error_message, generated_valid_sparql, query_results,
                   query_results_str, outcome, genLog, execLog, fmtLog, qaLog>>

\* changed: a failure of the fix chain is swallowed and the repair retried
FixFail_retried(r) ==
    /\ pc[r] = "fix"
    /\ Len(fixLog[r]) < LogCap
    /\ fixLog' = [fixLog EXCEPT ![r] =
           Append(@, [in |-> FixInputs(r), exc |-> ModelExc, out |-> ""])]
    /\ UNCHANGED <<config, graph_schema, pc, locals, outcome,
                   genLog, execLog, fmtLog, qaLog>>

\* line 219: the fix chain raises inside the QueryBadFormed handler; the
\* inner try catches QueryBadFormed only, so it propagates.
FixFail(r) ==
    /\ pc[r] = "fix"
    /\ Len(fixLog[r]) < LogCap
    /\ fixLog' = [fixLog EXCEPT ![r] =
           Append(@, [in |-> FixInputs(r), exc |-> ModelExc, out |-> ""])]
    /\ Propagate(r, ModelExc)
    /\ UNCHANGED <<config, graph_schema, prompt, ontology_schema,
                   generated_sparql, retries, error_message,
                   query_results_str, genLog, execLog, fmtLog, qaLog>>

\* line 240: the execution of a repaired query succeeds.
ExecRetryOk(r) ==
    /\ pc[r] = "exec_retry"
    /\ \E resp \in EndpointResponses(generated_sparql[r]) :
          /\ resp.exc = NoExc
          /\ LogExec(r, resp)
          /\ ReturnFromExecute(r, resp)
    /\ UNCHANGED <<config, graph_schema, prompt, ontology_schema,
                   generated_sparql, query_results_str,
                   genLog, fixLog, fmtLog, qaLog>>

\* lines 240-251: the execution of a repaired query raises QueryBadFormed.
ExecRetryBadFormed(r) ==
    /\ pc[r] = "exec_retry"
    /\ \E resp \in EndpointResponses(generated_sparql[r]) :
          /\ resp.exc # NoExc
          /\ IsBadFormed(resp.exc)
          /\ LogExec(r, resp)
          /\ AfterBadFormed(r, resp.exc, NextRetries(retries[r]))
    /\ UNCHANGED <<config, graph_schema, prompt, ontology_schema,
                   generated_sparql, query_results_str,
                   genLog, fixLog, fmtLog, qaLog>>

\* line 240: the execution of a repaired query raises another class.  The
\* statement runs inside the handler of the outer try, whose sibling except
\* clauses do not apply: the exception propagates as it is.
ExecRetryFatal(r) ==
    /\ pc[r] = "exec_retry"
    /\ \E resp \in EndpointResponses(generated_sparql[r]) :
          /\ resp.exc # NoExc
          /\ ~IsBadFormed(resp.exc)
          /\ LogExec(r, resp)
          /\ Propagate(r, resp.exc)
    /\ UNCHANGED <<config, graph_schema, prompt, ontology_schema,
                   generated_sparql, retries, error_message,
                   query_results_str, genLog, fixLog, fmtLog, qaLog>>

\* _call, line 124: format the result set.
Format(r) ==
    /\ pc[r] = "format"
    /\ query_results_str' = [query_results_str EXCEPT ![r] =
           query_results_to_json(query_results[r])]
    /\ fmtLog' = [fmtLog EXCEPT ![r] =
           Append(@, [in |-> query_results[r],
                      out |-> query_results_to_json(query_results[r])])]
    /\ pc' = [pc EXCEPT ![r] = "answer"]
    /\ UNCHANGED <<config, graph_schema, prompt, ontology_schema,
                   generated_sparql, retries, error_message,
                   generated_valid_sparql, query_results, outcome,
                   genLog, execLog, fixLog, qaLog>>

\* _call, lines 138-153: the answer chain returns; _call returns the dict.
AnswerOk(r) ==
    /\ pc[r] = "answer"
    /\ \E a \in Answers :
          /\ qaLog' = [qaLog EXCEPT ![r] =
                 Append(@, [in |-> QaInputs(r), exc |-> NoExc, out |-> a])]
          /\ result' = [result EXCEPT ![r] = CallResult(r, a)]
    /\ pc' = [pc EXCEPT ![r] = "returned"]
    /\ UNCHANGED <<config, graph_schema, locals, raised,
                   genLog, execLog, fixLog, fmtLog>>

\* _call, line 138: the answer chain raises; nothing catches it.
AnswerFail(r) ==
    /\ pc[r] = "answer"
    /\ qaLog' = [qaLog EXCEPT ![r] =
           Append(@, [in |-> QaInputs(r), exc |-> ModelExc, out |-> ""])]
    /\ raised' = [raised EXCEPT ![r] = ModelExc]
    /\ pc' = [pc EXCEPT ![r] = "raised"]
    /\ UNCHANGED <<config, graph_schema, locals, result,
                   genLog, execLog, fixLog, fmtLog>>

\* The caller has the result or the exception; the frame's locals are gone.
Collect(r) ==
    /\ pc[r] \in Terminal
    /\ pc' = [pc EXCEPT ![r] = "idle"]
    /\ prompt' = [prompt EXCEPT ![r] = ""]
    /\ ontology_schema' = [ontology_schema EXCEPT ![r] = ""]
    /\ generated_sparql' = [generated_sparql EXCEPT ![r] = ""]
    /\ retries' = [retries EXCEPT ![r] = 0]
    /\ error_message' = [error_message EXCEPT ![r] = ""]
    /\ generated_valid_sparql' = [generated_valid_sparql EXCEPT ![r] = ""]
    /\ query_results' = [query_results EXCEPT ![r] = <<>>]
    /\ query_results_str' = [query_results_str EXCEPT ![r] = ""]
    /\ result' = [result EXCEPT ![r] = NoResult]
    /\ raised' = [raised EXCEPT ![r] = NoExc]
    /\ genLog' = [genLog EXCEPT ![r] = <<>>]
    /\ execLog' = [execLog EXCEPT ![r] = <<>>]
    /\ fixLog' = [fixLog EXCEPT ![r] = <<>>]
    /\ fmtLog' = [fmtLog EXCEPT ![r] = <<>>]
    /\ qaLog' = [qaLog EXCEPT ![r] = <<>>]
    /\ UNCHANGED <<config, graph_schema>>

\* The schema provider's schema changes (the graph is external).
SchemaChange ==
    /\ \E s \in Schemas \ {graph_schema} : graph_schema' = s
    /\ UNCHANGED <<config, pc, locals, outcome, logs>>

\* One step of a request that is under way.
Step(r) ==
    \/ GenerateOk(r) \/ GenerateFail(r)
    \/ ExecFirstOk(r) \/ ExecFirstBadFormed(r) \/ ExecFirstFatal(r)
    \/ FixOk(r) \/ FixFail(r)
    \/ ExecRetryOk(r) \/ ExecRetryBadFormed(r) \/ ExecRetryFatal(r)
    \/ Format(r)
    \/ AnswerOk(r) \/ AnswerFail(r)

\* _call takes no lock and keeps its state in locals: a call starts
\* whatever the other frames are doing, and their steps interleave.
Next ==
    \/ \E r \in Requests : Call(r)
    \/ \E r \in Requests : Step(r)
    \/ \E r \in Requests : Collect(r)
    \/ SchemaChange

Spec == Init /\ [][Next]_vars

\* Each collaborator call returns or raises, and the caller takes the outcome.
FairSpec ==
    Spec /\ \A r \in Requests : WF_vars(Step(r)) /\ WF_vars(Collect(r))

\* ------------------------------------------- the formatter called alone
\* query_results_to_json is a static method: a caller hands it a result set.
FormatDirect(r) ==
    /\ pc[r] = "idle"
    /\ \E qr \in RowSeqs : query_results' = [query_results EXCEPT ![r] = qr]
    /\ pc' = [pc EXCEPT ![r] = "format"]
    /\ UNCHANGED <<config, graph_schema, prompt, ontology_schema,
                   generated_sparql, retries, error_message,
                   generated_valid_sparql, query_results_str, outcome, logs>>

\* The static call has returned its string (line 327); the frame is gone.
FormatReturn(r) ==
    /\ pc[r] = "answer"
    /\ genLog[r] = <<>>
    /\ pc' = [pc EXCEPT ![r] = "idle"]
    /\ query_results' = [query_results EXCEPT ![r] = <<>>]
    /\ query_results_str' = [query_results_str EXCEPT ![r] = ""]
    /\ fmtLog' = [fmtLog EXCEPT ![r] = <<>>]
    /\ UNCHANGED <<config, graph_schema, prompt, ontology_schema,
                   generated_sparql, retries, error_message,
                   generated_valid_sparql, outcome,
                   genLog, execLog, fixLog, qaLog>>

FmtNext ==
    \/ \E r \in Requests : FormatDirect(r)
    \/ \E r \in Requests : Format(r)
    \/ \E r \in Requests : FormatReturn(r)

\* A static method: the chain's budget and the provider's schema play no part.
FmtInit == Init /\ max_fix_retries = 0 /\ graph_schema = "onto_v1"

FmtSpec == FmtInit /\ [][FmtNext]_vars

\* ================================================================ claims
Last(log) == log[Len(log)]
Malformed(e) == e.class = "QueryBadFormed"
Succeeded(entry) == entry.exc = NoExc
\* the calls of a log that returned
Completed(log) == Cardinality({i \in 1..Len(log) : Succeeded(log[i])})
AllMalformed(log) == \A i \in 1..Len(log) : Malformed(log[i].exc)
NoModelFailure(r) ==
    /\ \A i \in 1..Len(genLog[r]) : Succeeded(genLog[r][i])
    /\ \A i \in 1..Len(fixLog[r]) : Succeeded(fixLog[r][i])
\* _execute_query has returned to _call
Executed(r) == pc[r] \in {"format", "answer", "returned"}

\* C1: with max_fix_retries = N >= 0, a request whose model calls all return
\* and whose executions are all rejected as malformed invokes the repair
\* model exactly N times, executes exactly N + 1 queries and then raises
\* QueryBadFormed; while it runs it has made at most N repairs and N + 1
\* executions.  For N = 0: no repair, failure right after the first result.
C1_ExactRepairCount ==
    \A r \in Requests :
        ( /\ max_fix_retries >= 0
          /\ execLog[r] # <<>>
          /\ AllMalformed(execLog[r])
          /\ NoModelFailure(r) )
        => /\ Len(fixLog[r]) <= max_fix_retries
           /\ Len(execLog[r]) <= max_fix_retries + 1
           /\ pc[r] \in {"fix", "exec_retry", "raised"}
           /\ pc[r] = "fix" => Len(fixLog[r]) < max_fix_retries
           /\ pc[r] = "raised" =>
                 /\ Len(fixLog[r]) = max_fix_retries
                 /\ Len(execLog[r]) = max_fix_retries + 1
                 /\ Malformed(raised[r])
                 /\ qaLog[r] = <<>>

\* Exhaustion with N = 2 (two repairs, three executions) and with N = 0.
C1_Witness ==
    /\ \E r \in Requests :
          /\ max_fix_retries = 2
          /\ pc[r] = "raised"
          /\ AllMalformed(execLog[r])
          /\ Len(execLog[r]) = 3
          /\ Len(fixLog[r]) = 2
          /\ NoModelFailure(r)

\* C2: if the first execution succeeds, the repair model is never invoked
\* in that request, whatever max_fix_retries is, no second execution is
\* made, and the query handed to _call and returned to the caller is the
\* query the generation chain produced.
C2_FirstSuccessNoRepair ==
    \A r \in Requests :
        (execLog[r] # <<>> /\ Succeeded(execLog[r][1]))
        => /\ fixLog[r] = <<>>
           /\ Len(execLog[r]) = 1
           /\ retries[r] = 0
           /\ pc[r] \in {"format", "answer", "returned", "raised"}
           /\ generated_valid_sparql[r] = genLog[r][1].out
           /\ pc[r] = "returned" =>
                  result[r].generated_sparql = genLog[r][1].out

C2_Witness ==
    \E r \in Requests :
        /\ pc[r] = "returned"
        /\ max_fix_retries = 2
        /\ Succeeded(execLog[r][1])
        /\ fixLog[r] = <<>>
        /\ result[r].generated_sparql = genLog[r][1].out

\* C3: if the first execution fails with a class other than QueryBadFormed,
\* the repair model is never invoked, nothing more is executed and that
\* same exception reaches the caller, whatever max_fix_retries is.
C3_FirstFatalPropagates ==
    \A r \in Requests :
        ( /\ execLog[r] # <<>>
          /\ ~Succeeded(execLog[r][1])
          /\ ~Malformed(execLog[r][1].exc) )
        => /\ fixLog[r] = <<>>
           /\ Len(execLog[r]) = 1
           /\ pc[r] = "raised"
           /\ raised[r] = execLog[r][1].exc
           /\ result[r] = NoResult

C3_Witness ==
    \E r \in Requests :
        /\ pc[r] = "raised"
        /\ max_fix_retries = 2
        /\ Len(execLog[r]) = 1
        /\ raised[r] = Exc("Unauthorized", "request failed")
        /\ fixLog[r] = <<>>

\* C4: when _execute_query succeeds after k >= 1 repairs, the query it
\* returns is the output of the k-th repair, which is the query of the
\* last execution, the only one that succeeded; the result set that is
\* formatted and given to the answer chain is the result of that execution.
C4_RepairedQueryReturned ==
    \A r \in Requests :
        (Executed(r) /\ fixLog[r] # <<>>)
        => LET k == Len(fixLog[r]) IN
           /\ Len(execLog[r]) = k + 1
           /\ Succeeded(Last(execLog[r]))
           /\ \A i \in 1..k : ~Succeeded(execLog[r][i])
           /\ generated_valid_sparql[r] = fixLog[r][k].out
           /\ generated_valid_sparql[r] = Last(execLog[r]).query
           /\ query_results[r] = Last(execLog[r]).results
           /\ pc[r] \in {"answer", "returned"} =>
                 /\ fmtLog[r] = << [in |-> Last(execLog[r]).results,
                                    out |-> query_results_str[r]] >>
           /\ qaLog[r] # <<>> =>
                 /\ Len(qaLog[r]) = 1
                 /\ qaLog[r][1].in.context =
                        query_results_to_json(Last(execLog[r]).results)
           /\ pc[r] = "returned" =>
                 result[r].generated_sparql = fixLog[r][k].out

\* Two repairs, the second candidate differs from the original and from
\* the first repair's candidate, and the request returned.
C4_Witness ==
    \E r \in Requests :
        /\ pc[r] = "returned"
        /\ Len(fixLog[r]) = 2
        /\ genLog[r][1].out = "SELECT_A"
        /\ fixLog[r][1].out = "SELECT_A"
        /\ fixLog[r][2].out = "SELECT_B"
        /\ result[r].generated_sparql = "SELECT_B"
        /\ Last(execLog[r]).results # <<>>

\* the retry counter has exceeded the budget
Exhausted(r) ==
    pc[r] = "raised" /\ retries[r] >= 1 /\ retries[r] > max_fix_retries

\* C5: when the retry budget is exhausted, the exception that reaches the
\* caller is the QueryBadFormed raised by the last execution of the
\* request, the one that took the counter over max_fix_retries.
C5_LastFailurePropagates ==
    \A r \in Requests :
        Exhausted(r)
        => /\ raised[r] = Last(execLog[r]).exc
           /\ Malformed(raised[r])
           /\ Len(execLog[r]) = retries[r]

\* Exhaustion where the first and the last failure carry different messages.
C5_Witness ==
    \E r \in Requests :
        /\ Exhausted(r)
        /\ Len(execLog[r]) = 3
        /\ execLog[r][1].exc = Exc("QueryBadFormed", "bad token")
        /\ execLog[r][2].exc = Exc("QueryBadFormed", "bad token")
        /\ raised[r] = Exc("QueryBadFormed", "bad prefix")

\* the request failed before the answer chain was reached
FailedBeforeAnswer(r) ==
    /\ pc[r] = "raised"
    /\ \/ (genLog[r] # <<>> /\ ~Succeeded(Last(genLog[r])))
       \/ (execLog[r] # <<>> /\ ~Succeeded(Last(execLog[r])))
       \/ (fixLog[r] # <<>> /\ ~Succeeded(Last(fixLog[r])))

\* C6: a request that fails by exhaustion, by a non-malformed endpoint
\* failure or by a model failure before answering has not invoked the
\* formatter or the answer chain; no failed request gives the caller an
\* answer or a query; the answer chain is invoked only after an execution
\* has succeeded, and a request that returns has raised nothing.
C6_NoPartialAnswer ==
    \A r \in Requests :
        /\ FailedBeforeAnswer(r) => (qaLog[r] = <<>> /\ fmtLog[r] = <<>>)
        /\ pc[r] = "raised" => (result[r] = NoResult /\ raised[r] # NoExc)
        /\ pc[r] = "raised" =>
              (FailedBeforeAnswer(r)
                  \/ (qaLog[r] # <<>> /\ raised[r] = Last(qaLog[r]).exc))
        /\ qaLog[r] # <<>> =>
              (execLog[r] # <<>> /\ Succeeded(Last(execLog[r])))
        /\ pc[r] = "returned" =>
              (raised[r] = NoExc /\ result[r] # NoResult
                  /\ Len(qaLog[r]) = 1 /\ Succeeded(qaLog[r][1]))

\* A request that failed by exhaustion after repairs, with no answer call.
C6_Witness ==
    \E r \in Requests :
        /\ FailedBeforeAnswer(r)
        /\ max_fix_retries = 1
        /\ Len(execLog[r]) = 2
        /\ Malformed(raised[r])
        /\ qaLog[r] = <<>>
        /\ result[r] = NoResult

\* C7: the k-th repair is given the query of the k-th execution, the
\* message of the QueryBadFormed that execution raised, and the schema read
\* at the start of the request; the first execution runs the generated
\* query and the (k+1)-th execution runs the output of the k-th repair.
C7_RepairInputsFresh ==
    \A r \in Requests :
        /\ execLog[r] # <<>> => execLog[r][1].query = genLog[r][1].out
        /\ \A k \in 1..Len(fixLog[r]) :
              /\ k <= Len(execLog[r])
              /\ Malformed(execLog[r][k].exc)
              /\ fixLog[r][k].in.generated_sparql = execLog[r][k].query
              /\ fixLog[r][k].in.error_message = execLog[r][k].exc.msg
              /\ fixLog[r][k].in.schema = genLog[r][1].in.schema
              /\ fixLog[r][k].in.schema = ontology_schema[r]
              /\ k + 1 <= Len(execLog[r]) =>
                    execLog[r][k + 1].query = fixLog[r][k].out

\* A second repair whose query and error both differ from the first's.
C7_Witness ==
    \E r \in Requests :
        /\ Len(fixLog[r]) = 2
        /\ fixLog[r][1].in.generated_sparql = "SELECT_A"
        /\ fixLog[r][1].in.error_message = "bad token"
        /\ fixLog[r][2].in.generated_sparql = "SELECT_B"
        /\ fixLog[r][2].in.error_message = "bad prefix"
        /\ fixLog[r][2].in.schema # graph_schema

\* C8, the parts about single execution, ordering and the total.
C8_ExecutionDiscipline(r) ==
    \* execution k runs candidate k (the generated query, then the output
    \* of repair k - 1), so no candidate is executed twice
    /\ \A k \in 1..Len(execLog[r]) :
          execLog[r][k].query =
              IF k = 1 THEN genLog[r][1].out ELSE fixLog[r][k - 1].out
    \* a repair is invoked only when every earlier repair returned and its
    \* candidate was executed and rejected
    /\ Len(fixLog[r]) <= Len(execLog[r])
    /\ \A k \in 1..(Len(fixLog[r]) - 1) : Succeeded(fixLog[r][k])
    /\ max_fix_retries >= 0 => Len(execLog[r]) <= max_fix_retries + 1

\* C8 as stated, its last part read from the start of the first execution
\* on (read from the start of the request it fails earlier still, with no
\* execution and no repair): executions started = completed repairs + 1.
C8_Original ==
    \A r \in Requests :
        /\ C8_ExecutionDiscipline(r)
        /\ execLog[r] # <<>> =>
              Len(execLog[r]) = Completed(fixLog[r]) + 1

\* C8 (amended): each candidate is executed at most once, an execution
\* follows each successful repair before any further repair, the executions
\* of a request never exceed max_fix_retries + 1 (for max_fix_retries >= 0),
\* and from the start of the first execution on the executions started
\* equal the completed repairs plus one, except between the return of a
\* repair and the start of the execution of its candidate, where the two
\* numbers are equal.
C8_ExecutionsAndRepairs ==
    \A r \in Requests :
        /\ C8_ExecutionDiscipline(r)
        /\ execLog[r] = <<>> => fixLog[r] = <<>>
        /\ execLog[r] # <<>> =>
              Len(execLog[r]) =
                  Completed(fixLog[r]) + (IF pc[r] = "exec_retry" THEN 0 ELSE 1)

\* The second repair has returned and its candidate, the last one the
\* budget allows, is about to be executed: two executions, two repairs.
C8_Witness ==
    \E r \in Requests :
        /\ max_fix_retries = 2
        /\ pc[r] = "exec_retry"
        /\ Len(execLog[r]) = 2
        /\ Completed(fixLog[r]) = 2

\* C9: every request that has started reaches a terminal state, returned
\* (SUCCESS) or raised (FATAL), whatever the endpoint and the model answer,
\* given that each collaborator call returns or raises.  In the loop the
\* counter equals the executions made so far and stays within the budget,
\* so each round uses up budget; the model's own cap on the logs never
\* holds the loop.
C9_RequestTerminates ==
    /\ [](\A r \in Requests :
             pc[r] \in {"fix", "exec_retry"} =>
                 /\ Len(fixLog[r]) < LogCap
                 /\ retries[r] = Len(execLog[r])
                 /\ 1 <= retries[r]
                 /\ retries[r] <= max_fix_retries)
    /\ \A r \in Requests : (pc[r] \in Running) ~> (pc[r] \in Terminal)

\* A request that went round the loop as often as the budget allows and
\* succeeded on the last execution.
C9_Witness ==
    \E r \in Requests :
        /\ pc[r] = "returned"
        /\ max_fix_retries = 2
        /\ retries[r] = 2
        /\ Len(execLog[r]) = 3

\* C10: if the execution of a repaired query fails with a class other than
\* QueryBadFormed, the request ends there, with no further repair or
\* execution whatever budget remains, and that exception reaches the caller.
C10_RetryFatalPropagates ==
    \A r \in Requests :
        ( /\ Len(execLog[r]) >= 2
          /\ ~Succeeded(Last(execLog[r]))
          /\ ~Malformed(Last(execLog[r]).exc) )
        => /\ pc[r] = "raised"
           /\ raised[r] = Last(execLog[r]).exc
           /\ raised[r] # UnableToExecute
           /\ Len(fixLog[r]) = Len(execLog[r]) - 1
           /\ Completed(fixLog[r]) = Len(fixLog[r])
           /\ qaLog[r] = <<>>
           /\ result[r] = NoResult

\* The first repaired query fails with a 500 while budget remains.
C10_Witness ==
    \E r \in Requests :
        /\ pc[r] = "raised"
        /\ Len(execLog[r]) = 2
        /\ retries[r] = 1
        /\ max_fix_retries = 2
        /\ raised[r] = Exc("EndPointInternalError", "request failed")
        /\ execLog[r][1].exc = Exc("QueryBadFormed", "bad token")

\* ---------------------------------------------------------- formatter
\* bindings in the first i rows
RECURSIVE BindingsUpTo(_, _)
BindingsUpTo(rows, i) ==
    IF i = 0 THEN 0 ELSE Len(rows[i]) + BindingsUpTo(rows, i - 1)

\* the row that holds the n-th binding of the result set
RowOfBinding(rows, n) ==
    CHOOSE i \in 1..Len(rows) :
        BindingsUpTo(rows, i - 1) < n /\ n <= BindingsUpTo(rows, i)

\* the n-th binding of the result set as a one-entry mapping <<variable, value>>
NthEntry(rows, n) ==
    LET i == RowOfBinding(rows, n)
        b == rows[i][n - BindingsUpTo(rows, i - 1)]
    IN  <<b[1], b[2].value>>

\* one entry per binding, rows in order, bindings in each row's order
FlatEntries(rows) ==
    [n \in 1..BindingsUpTo(rows, Len(rows)) |-> NthEntry(rows, n)]

\* C11: the formatter gives one {variable: value} entry per binding, rows
\* in their order and bindings in each row's order, so the output has as
\* many entries as the rows have bindings and the rows are not kept apart;
\* [{a: 1, b: 2}] gives [{"a": "1"}, {"b": "2"}], no row gives [].
C11_FormatterFlattens ==
    \A r \in Requests :
        \A i \in 1..Len(fmtLog[r]) :
            LET rows == fmtLog[r][i].in IN
            /\ FlattenBindings(rows) = FlatEntries(rows)
            /\ Len(FlattenBindings(rows)) = BindingsUpTo(rows, Len(rows))
            /\ fmtLog[r][i].out = JsonDumps(FlatEntries(rows))
            /\ query_results_str[r] = fmtLog[r][i].out
            /\ rows = <<>> => fmtLog[r][i].out = "[]"
            /\ rows = << << <<"a", Lit("1")>>, <<"b", Lit("2")>> >> >> =>
                  fmtLog[r][i].out = "[{\"a\": \"1\"}, {\"b\": \"2\"}]"
            /\ rows = << << <<"s", Uri("luke")>> >>, << <<"b", Lit("2")>>, <<"a", Lit("1")>> >> >> =>
                  fmtLog[r][i].out =
                      "[{\"s\": \"luke\"}, {\"b\": \"2\"}, {\"a\": \"1\"}]"

\* Two rows, three bindings, formatted to three entries.
C11_Witness ==
    \E r \in Requests :
        /\ fmtLog[r] # <<>>
        /\ fmtLog[r][1].in =
               << << <<"s", Uri("luke")>> >>, << <<"b", Lit("2")>>, <<"a", Lit("1")>> >> >>
        /\ query_results_str[r] =
               "[{\"s\": \"luke\"}, {\"b\": \"2\"}, {\"a\": \"1\"}]"

\* -------------------------------------------------------- interleaving
SoloEnd(n, res, e) == [repairs |-> n, result |-> res, raised |-> e]
Incomplete == SoloEnd(-1, NoResult, NoExc)

\* What a request does on its own with budget N when the generation chain
\* answers G, the endpoint E[1], E[2], ..., the fix chain F[1], F[2], ...
\* and the answer chain Q: execution k runs candidate cand.
RECURSIVE SoloLoop(_, _, _, _, _, _)
SoloLoop(N, cand, E, F, Q, k) ==
    IF k > Len(E) THEN Incomplete
    ELSE IF Succeeded(E[k]) THEN
        IF Q = <<>> THEN Incomplete
        ELSE IF Succeeded(Q[1])
        THEN SoloEnd(k - 1, [answer |-> Q[1].out, generated_sparql |-> cand], NoExc)
        ELSE SoloEnd(k - 1, NoResult, Q[1].exc)
    ELSE IF ~Malformed(E[k].exc) THEN SoloEnd(k - 1, NoResult, E[k].exc)
    ELSE IF k > N THEN SoloEnd(k - 1, NoResult, E[k].exc)
    ELSE IF k > Len(F) THEN Incomplete
    ELSE IF ~Succeeded(F[k]) THEN SoloEnd(k, NoResult, F[k].exc)
    ELSE SoloLoop(N, F[k].out, E, F, Q, k + 1)

SoloRun(N, G, E, F, Q) ==
    IF G = <<>> THEN Incomplete
    ELSE IF ~Succeeded(G[1]) THEN SoloEnd(0, NoResult, G[1].exc)
    ELSE SoloLoop(N, G[1].out, E, F, Q, 1)

\* the responses request r has consumed are exactly those a solo run takes
SoloConsumes(r) ==
    LET solo == SoloRun(max_fix_retries, genLog[r], execLog[r], fixLog[r], qaLog[r])
        execs == IF genLog[r] # <<>> /\ Succeeded(genLog[r][1])
                 THEN Completed(fixLog[r]) + 1 ELSE 0
    IN  /\ Len(genLog[r]) = 1
        /\ Len(execLog[r]) = execs
        /\ Len(qaLog[r]) =
               IF execLog[r] # <<>> /\ Succeeded(Last(execLog[r])) THEN 1 ELSE 0

\* what a step of another request must leave alone
Frame(r) ==
    <<pc[r], prompt[r], ontology_schema[r], generated_sparql[r], retries[r],
      error_message[r], generated_valid_sparql[r], query_results[r],
      query_results_str[r], result[r], raised[r],
      genLog[r], execLog[r], fixLog[r], fmtLog[r], qaLog[r]>>

\* C13: with the steps of several requests interleaved in any order, a
\* request that has ended has made as many repairs and has the same outcome
\* (returned dict or raised exception) as a run on its own that is given
\* the same responses, and it consumed no response such a run would not;
\* a step of one request changes nothing in the frame of another.
C13_InterleavingIsolated ==
    /\ [](\A r \in Requests :
             pc[r] \in Terminal =>
                 /\ SoloConsumes(r)
                 /\ SoloEnd(Len(fixLog[r]), result[r], raised[r]) =
                        SoloRun(max_fix_retries, genLog[r], execLog[r],
                                fixLog[r], qaLog[r]))
    /\ [][\A r \in Requests : pc'[r] = pc[r] => Frame(r)' = Frame(r)]_vars

\* Two requests were in the repair loop together, each with its own query
\* and error text, and one has ended after both its repairs.
C13_Witness ==
    \E r, o \in Requests :
        /\ r # o
        /\ max_fix_retries = 2
        /\ pc[r] = "returned"
        /\ Len(fixLog[r]) = 2
        /\ pc[o] = "exec_retry"
        /\ Len(fixLog[o]) = 1
        /\ retries[o] = 1
        /\ error_message[o] # error_message[r]
        /\ generated_sparql[o] # generated_sparql[r]

\* ------------------------------------------------------- configuration
\* C14: no step of any request changes max_fix_retries, the three chains
\* or their prompt templates; the chains are those from_llm built, so the
\* budget a request finds is the one set at construction whatever earlier
\* requests used.
C14_ConfigurationReadOnly ==
    /\ [][config' = config]_vars
    /\ [](/\ sparql_generation_chain =
                 LLMChain("llm", "GRAPHDB_SPARQL_GENERATION_PROMPT")
          /\ sparql_fix_chain = LLMChain("llm", "GRAPHDB_SPARQL_FIX_PROMPT")
          /\ qa_chain = LLMChain("llm", "GRAPHDB_QA_PROMPT")
          /\ max_fix_retries \in RetryBudgets)

\* A request has used up a budget of two and the budget is still two.
C14_Witness ==
    \E r \in Requests :
        /\ Exhausted(r)
        /\ Len(fixLog[r]) = 2
        /\ max_fix_retries = 2
        /\ qa_chain.prompt = "GRAPHDB_QA_PROMPT"

\* ------------------------------------------------------ model failures
ModelFailed(log) == log # <<>> /\ ~Succeeded(Last(log))

\* C15: a failure of a model call ends the request with that failure and
\* is never retried or repaired: after a failed generation nothing is
\* executed, after a failed repair nothing more is executed or repaired
\* whatever budget remains, after a failed answer no result is returned;
\* a failed call is always the last call the request made.
C15_ModelFailureFatal ==
    \A r \in Requests :
        /\ \A i \in 1..(Len(genLog[r]) - 1) : Succeeded(genLog[r][i])
        /\ \A i \in 1..(Len(fixLog[r]) - 1) : Succeeded(fixLog[r][i])
        /\ \A i \in 1..(Len(qaLog[r]) - 1) : Succeeded(qaLog[r][i])
        /\ ModelFailed(genLog[r]) =>
              /\ Len(genLog[r]) = 1
              /\ execLog[r] = <<>> /\ fixLog[r] = <<>> /\ qaLog[r] = <<>>
              /\ pc[r] = "raised"
              /\ raised[r] = Last(genLog[r]).exc
              /\ result[r] = NoResult
        /\ ModelFailed(fixLog[r]) =>
              /\ Len(execLog[r]) = Len(fixLog[r])
              /\ qaLog[r] = <<>>
              /\ pc[r] = "raised"
              /\ raised[r] = Last(fixLog[r]).exc
              /\ result[r] = NoResult
        /\ ModelFailed(qaLog[r]) =>
              /\ Len(qaLog[r]) = 1
              /\ pc[r] = "raised"
              /\ raised[r] = Last(qaLog[r]).exc
              /\ result[r] = NoResult

\* The first repair call fails with a budget of two: one execution, one
\* repair call, and the model's failure reaches the caller.
C15_Witness ==
    \E r \in Requests :
        /\ max_fix_retries = 2
        /\ retries[r] = 1
        /\ Len(fixLog[r]) = 1
        /\ ModelFailed(fixLog[r])
        /\ Len(execLog[r]) = 1
        /\ pc[r] = "raised"
        /\ raised[r] = ModelExc

\* ------------------------------------------------------- order of steps
Grows(log, r) == Len(log[r]') > Len(log[r])

\* what has been called so far fits the order generation, execution and
\* repairs, formatting, answer
C16_CallsSoFar(r) ==
    /\ Len(genLog[r]) <= 1 /\ Len(fmtLog[r]) <= 1 /\ Len(qaLog[r]) <= 1
    /\ execLog[r] # <<>> => (Len(genLog[r]) = 1 /\ Succeeded(genLog[r][1]))
    /\ fmtLog[r] # <<>> =>
          /\ execLog[r] # <<>>
          /\ Succeeded(Last(execLog[r]))
          /\ fmtLog[r][1].in = Last(execLog[r]).results
    /\ qaLog[r] # <<>> =>
          /\ Len(fmtLog[r]) = 1
          /\ qaLog[r][1].in.prompt = genLog[r][1].in.prompt
          /\ qaLog[r][1].in.prompt = prompt[r]
          /\ qaLog[r][1].in.context = fmtLog[r][1].out
    /\ pc[r] = "returned" =>
          /\ Len(genLog[r]) = 1 /\ Len(fmtLog[r]) = 1 /\ Len(qaLog[r]) = 1
          /\ Len(execLog[r]) = Len(fixLog[r]) + 1
          /\ result[r].answer = qaLog[r][1].out

\* each call comes before the calls of the later stages, and nothing is
\* called once the answer is there
C16_CallOrder(r) ==
    /\ Grows(genLog, r) => (execLog[r] = <<>> /\ fixLog[r] = <<>>)
    /\ (Grows(execLog, r) \/ Grows(fixLog, r)) =>
          (genLog[r] # <<>> /\ fmtLog[r] = <<>> /\ qaLog[r] = <<>>)
    /\ Grows(fmtLog, r) => (execLog[r] # <<>> /\ qaLog[r] = <<>>)
    /\ Grows(qaLog, r) => fmtLog[r] # <<>>
    /\ pc[r] = "returned" =>
          \/ pc'[r] = "idle"
          \/ <<genLog[r], execLog[r], fixLog[r], fmtLog[r], qaLog[r]>>' =
                 <<genLog[r], execLog[r], fixLog[r], fmtLog[r], qaLog[r]>>

\* C16: in a request that returns, the generation chain is called once and
\* before any execution, the formatter once and only after the execution
\* that succeeded, the answer chain once, after the formatter, with the
\* question of the request and the formatted results; after the answer no
\* collaborator is called.
C16_StepOrder ==
    /\ [](\A r \in Requests : C16_CallsSoFar(r))
    /\ [][\A r \in Requests : C16_CallOrder(r)]_vars

\* A request returned after one repair: one generation, two executions,
\* one formatting of a non-empty result set, one answer.
C16_Witness ==
    \E r \in Requests :
        /\ pc[r] = "returned"
        /\ Len(genLog[r]) = 1 /\ Len(execLog[r]) = 2 /\ Len(fixLog[r]) = 1
        /\ fmtLog[r][1].out = "[{\"a\": \"1\"}, {\"b\": \"2\"}]"
        /\ qaLog[r][1].in =
               [prompt |-> "who is luke",
                context |-> "[{\"a\": \"1\"}, {\"b\": \"2\"}]"]
        /\ result[r].answer = "answer_1"

\* -------------------------------------------------------- retry counter
MalformedCount(log) == Cardinality({i \in 1..Len(log) : Malformed(log[i].exc)})

C17_CounterNow(r) ==
    \* the counter is the number of QueryBadFormed failures so far
    /\ retries[r] = MalformedCount(execLog[r])
    \* a repair is invoked (and its candidate executed) within the budget
    /\ pc[r] \in {"fix", "exec_retry"} =>
          (1 <= retries[r] /\ retries[r] <= max_fix_retries)
    \* at the k-th invocation of the repair model the counter is k
    /\ pc[r] = "fix" => retries[r] = Len(fixLog[r]) + 1
    /\ pc[r] = "exec_retry" => retries[r] = Len(fixLog[r])
    \* the comparison was made after the failure that ended the request
    /\ (pc[r] = "raised" /\ execLog[r] # <<>> /\ Malformed(raised[r])) =>
          retries[r] > max_fix_retries
    /\ max_fix_retries >= 0 => retries[r] <= max_fix_retries + 1

C17_CounterStep(r) ==
    \/ retries[r]' = retries[r] /\ MalformedCount(execLog[r]') = MalformedCount(execLog[r])
    \/ /\ retries[r]' = retries[r] + 1
       /\ Len(execLog[r]') = Len(execLog[r]) + 1
       /\ Malformed(Last(execLog[r]').exc)
       /\ retries[r] = 0 <=> Len(execLog[r]) = 0
    \/ pc'[r] = "idle"

\* C17: whenever the repair model is invoked the counter is between 1 and
\* max_fix_retries and equals the QueryBadFormed failures seen so far; it
\* becomes 1 on the first such failure and grows by exactly 1 on each later
\* one; the comparison with the budget follows every such failure, so a
\* request goes on only within the budget and the counter never exceeds
\* max_fix_retries + 1 when max_fix_retries >= 0.
C17_RetryCounter ==
    /\ [](\A r \in Requests : C17_CounterNow(r))
    /\ [][\A r \in Requests : C17_CounterStep(r)]_vars

\* The second repair is about to be invoked with the counter at the budget.
C17_Witness ==
    \E r \in Requests :
        /\ pc[r] = "fix"
        /\ retries[r] = 2
        /\ max_fix_retries = 2
        /\ Len(fixLog[r]) = 1
        /\ MalformedCount(execLog[r]) = 2

\* ---------------------------------------------------------- safety net
\* C18: the bare Exception of line 309 is never raised: whenever the loop
\* test is false the raise before it has fired, so a request that has
\* seen a QueryBadFormed and has ended has either returned an executed
\* query or raised the exception of its last execution or of a model call.
C18_SafetyNetUnreachable ==
    \A r \in Requests :
        /\ raised[r] # UnableToExecute
        /\ (retries[r] >= 1 /\ pc[r] = "raised") =>
              \/ (~Succeeded(Last(execLog[r])) /\ ~ModelFailed(fixLog[r])
                    /\ raised[r] = Last(execLog[r]).exc)
              \/ (ModelFailed(fixLog[r]) /\ raised[r] = Last(fixLog[r]).exc)
              \/ (ModelFailed(qaLog[r]) /\ raised[r] = Last(qaLog[r]).exc)
        /\ (retries[r] >= 1 /\ Executed(r)) =>
              (Succeeded(Last(execLog[r]))
                 /\ generated_valid_sparql[r] = Last(execLog[r]).query)

\* With a budget of 1 the loop is left after the one round it allows, by
\* the raise of line 251 and with the exception of the second execution.
C18_Witness ==
    \E r \in Requests :
        /\ pc[r] = "raised"
        /\ max_fix_retries = 1
        /\ retries[r] = 2
        /\ Len(fixLog[r]) = 1
        /\ raised[r] = Exc("QueryBadFormed", "bad prefix")
        /\ raised[r] = execLog[r][2].exc

\* ------------------------------------------------------ schema snapshot
\* C19: the schema is read from the provider once, when the request
\* starts and before the generation call; that snapshot goes to the
\* generation call and to every repair call, whatever the provider's
\* schema has become since.
C19_SchemaSnapshot ==
    /\ [](\A r \in Requests :
             /\ pc[r] # "idle" => ontology_schema[r] \in Schemas
             /\ \A i \in 1..Len(genLog[r]) :
                   genLog[r][i].in.schema = ontology_schema[r]
             /\ \A k \in 1..Len(fixLog[r]) :
                   fixLog[r][k].in.schema = ontology_schema[r])
    /\ [][\A r \in Requests :
             ontology_schema[r]' # ontology_schema[r] =>
                 \/ /\ pc[r] = "idle" /\ pc'[r] = "generate"
                    /\ genLog[r] = <<>>
                    /\ ontology_schema[r]' = graph_schema
                 \/ pc'[r] = "idle"]_vars

\* The provider's schema changed during the request; generation and both
\* repairs were given the schema read at the start.
C19_Witness ==
    \E r \in Requests :
        /\ Len(fixLog[r]) = 2
        /\ genLog[r][1].in.schema = "onto_v1"
        /\ fixLog[r][1].in.schema = "onto_v1"
        /\ fixLog[r][2].in.schema = "onto_v1"
        /\ graph_schema = "onto_v2"

====
